---- MODULE Spec2Model ----
(***************************************************************************)
(* Model of drastic (src/drastic/drastic.py): the global toggle, the       *)
(* @init constructor decorator with its Object/Argument pipeline and the   *)
(* per-type capability state it installs, the @strict call wrapper, and    *)
(* the capability methods (_bool, _len, _getitem, ...) used on instances.  *)
(***************************************************************************)
EXTENDS Integers, Sequences, FiniteSets, TLC

VARIABLES
    enabled,    \* module global _enabled
    decl,       \* the @init-decorated classes: class name -> declared parameters
    ts,         \* per-class attributes set by Object: class name -> type state
    instances,  \* the instances returned by successful constructions
    lastCall,   \* the last @init / @strict call and what it did
    lastOp,     \* the last capability method call on an instance
    calls       \* number of decorated calls made so far

vars == <<enabled, decl, ts, instances, lastCall, lastOp, calls>>

\* Bound on the number of decorated calls in one behaviour.
MaxCalls == 2

(***************************************************************************)
(* Python values: a runtime type name and a payload (a sequence of ints).  *)
(***************************************************************************)
Val(t, v) == [t |-> t, v |-> v]
VInt0 == Val("int", <<0>>)
VStr  == Val("str", <<>>)
VList == Val("list", <<1, 2, 3>>)
VNone == Val("NoneType", <<>>)
VBool == Val("bool", <<1>>)
\* an instance of a user-defined subclass of list: class MyList(list)
VMyList == Val("MyList", <<1, 2, 3>>)

(***************************************************************************)
(* Annotation elements after _to_tuple: a type, a keyword string (kept as  *)
(* its set of whitespace-separated tokens) or None (missing annotation,    *)
(* the defaultdict default of init).                                       *)
(***************************************************************************)
TypeElem(t) == [k |-> "type", t |-> t, raw |-> "", toks |-> {}]
StrElem(raw, S) == [k |-> "str", t |-> "", raw |-> raw, toks |-> S]
NoneElem    == [k |-> "none", t |-> "", raw |-> "", toks |-> {}]

\* Object.local_incompatible / Object.uniques / Object.all_keywords
local_incompatible == {"private", "boolean", "number", "string", "container", "compare"}
uniques == {"boolean", "number", "container", "compare"}
all_keywords == {"nonable", "local", "private", "boolean", "number", "string", "container", "compare"}

Max(S) == CHOOSE x \in S : \A y \in S : y <= x
Min2(a, b) == IF a < b THEN a ELSE b

\* Argument.__init__: the concrete types of the annotation
ArgTypes(ann) == {ann[i].t : i \in {j \in 1..Len(ann) : ann[j].k = "type"}}

\* Argument.__init__: keywords = set(annotation.split()) of the LAST string element
ArgKeywords(ann) ==
    LET S == {j \in 1..Len(ann) : ann[j].k = "str"}
    IN IF S = {} THEN {} ELSE ann[Max(S)].toks

\* type(value).__mro__ for the classes of the program's values: bool derives from
\* int, the user class MyList from list, everything from object
Mro(t) ==
    CASE t = "bool"     -> {"bool", "int", "object"}
      [] t = "int"      -> {"int", "object"}
      [] t = "str"      -> {"str", "object"}
      [] t = "list"     -> {"list", "object"}
      [] t = "MyList"   -> {"MyList", "list", "object"}
      [] t = "NoneType" -> {"NoneType", "object"}

\* The abstract base classes of collections.abc and numbers whose
\* __instancecheck__ accepts instances of t (through register() or __subclasshook__)
VirtualBases(t) ==
    LET seq == {"Sequence", "Reversible", "Collection", "Sized", "Iterable", "Container"}
        num == {"Number", "Complex", "Real", "Rational", "Integral"}
    IN CASE t = "str"              -> seq \cup {"Hashable"}
         [] t \in {"list", "MyList"} -> seq \cup {"MutableSequence"}
         [] t \in {"int", "bool"}    -> num \cup {"Hashable"}
         [] t = "NoneType"         -> {"Hashable"}

\* isinstance(value, types): some listed class is in type(value).__mro__, or is an
\* abstract base class that accepts the value
IsInstance(value, types) == (Mro(value.t) \cup VirtualBases(value.t)) \cap types # {}

\* check_type without the 'nonable' exemption for None
check_type_fails_nonull(value, ann) ==
    LET types == ArgTypes(ann)
    IN types # {} /\ ~IsInstance(value, types)

\* Argument.check_type: TRUE when it raises ArgumentTypeError
check_type_fails(value, ann) ==
    LET types == ArgTypes(ann)
        nullable == value.t = "NoneType" /\ "nonable" \in ArgKeywords(ann)
    IN types # {} /\ ~(nullable \/ IsInstance(value, types))

\* _type_ok(value, expected): isinstance(value, types) or ('nonable' in expected and value is None)
\* ('nonable' in expected compares whole elements: only an element equal to the string 'nonable' matches)
_type_ok(value, expected) ==
    LET types == ArgTypes(expected)
        nullable == \E j \in 1..Len(expected) :
                        expected[j].k = "str" /\ expected[j].raw = "nonable"
    IN IsInstance(value, types) \/ (nullable /\ value.t = "NoneType")

(***************************************************************************)
(* Type state: the class attributes Object writes (_initialized, _varstr,  *)
(* _varbool, _varnumber, _varitems, _varcmp) and the dunder methods it     *)
(* installs. "" stands for an attribute that is not set.                   *)
(***************************************************************************)
FreshType == [initialized |-> FALSE, varstr |-> <<>>, varbool |-> "",
              varnumber |-> "", varitems |-> "", varcmp |-> "", methods |-> {}]

\* Object.set_private
set_private(cls, name) == "_" \o cls \o "__" \o name

\* check_consistency treating every keyword as unique
check_consistency_allunique(kw, kws) ==
    IF "local" \in kws /\ kws \cap local_incompatible # {}
    THEN [err |-> TRUE, kw |-> kw]
    ELSE IF kws \cap kw # {}
         THEN [err |-> TRUE, kw |-> kw]
         ELSE [err |-> FALSE, kw |-> kw \cup kws]

\* Object.check_consistency: [err |-> raised AnnotationError, kw |-> self.keywords after]
check_consistency(kw, kws) ==
    IF "local" \in kws /\ kws \cap local_incompatible # {}
    THEN [err |-> TRUE, kw |-> kw]
    ELSE IF (kws \cap uniques) \cap kw # {}
         THEN [err |-> TRUE, kw |-> kw]
         ELSE [err |-> FALSE, kw |-> kw \cup kws]

\* Object.register_tostring
register_tostring(t, name) == [t EXCEPT !.varstr = Append(@, name)]

\* Object.add_tobool / add_tonumber / add_container_methods / add_comparison_methods
add_tobool(t, name) == [t EXCEPT !.methods = @ \cup {"__bool__"}, !.varbool = name]
add_tonumber(t, name) == [t EXCEPT !.methods = @ \cup {"__int__", "__float__"}, !.varnumber = name]
add_container_methods(t, name) ==
    [t EXCEPT !.methods = @ \cup {"__getitem__", "__setitem__", "__delitem__",
                                   "__iter__", "__reversed__", "__contains__"},
              !.varitems = name]
add_comparison_methods(t, name) ==
    [t EXCEPT !.methods = @ \cup {"__eq__", "__ne__", "__lt__", "__le__"}, !.varcmp = name]

\* add_argument without the hasattr(self.type, '_initialized') guard
add_argument_install_always(cls, t, attrs, name, value, kws) ==
    LET nm == IF "private" \in kws THEN set_private(cls, name) ELSE name
        t1 == IF "boolean" \in kws THEN add_tobool(t, nm) ELSE t
        t2 == IF "number" \in kws THEN add_tonumber(t1, nm) ELSE t1
        t3 == IF "string" \in kws THEN register_tostring(t2, nm) ELSE t2
        t4 == IF "container" \in kws THEN add_container_methods(t3, nm) ELSE t3
        t5 == IF "compare" \in kws THEN add_comparison_methods(t4, nm) ELSE t4
    IN [t |-> t5, attrs |-> (nm :> value) @@ attrs, stored |-> nm]

\* The part of Object.add_argument after check_consistency: installation (only
\* while the type has no _initialized) and setattr on the instance.
\* Result: [t |-> type state, attrs |-> instance attributes, stored |-> name used]
add_argument_install(cls, t, attrs, name, value, kws) ==
    LET first == ~t.initialized
        nm == IF first /\ "private" \in kws THEN set_private(cls, name) ELSE name
        t1 == IF first /\ "boolean" \in kws THEN add_tobool(t, nm) ELSE t
        t2 == IF first /\ "number" \in kws THEN add_tonumber(t1, nm) ELSE t1
        t3 == IF first /\ "string" \in kws THEN register_tostring(t2, nm) ELSE t2
        t4 == IF first /\ "container" \in kws THEN add_container_methods(t3, nm) ELSE t3
        t5 == IF first /\ "compare" \in kws THEN add_comparison_methods(t4, nm) ELSE t4
    IN [t |-> t5, attrs |-> (nm :> value) @@ attrs, stored |-> nm]

\* Object.add_tostring followed by _initialized = True
finalize(t) ==
    [t EXCEPT !.methods = IF t.varstr # <<>> THEN @ \cup {"__str__"} ELSE @,
              !.initialized = TRUE]

\* The loop of init.__init over zip(spec.args[1:], arguments[1:]): builds
\* Argument(name, value, annotations[name]) (check_type) and calls
\* obj.add_argument (check_consistency, installation, setattr). Stops at the
\* first exception. trace records each processed field.
RECURSIVE process(_, _, _, _, _)
process(cls, ps, args, i, st) ==
    IF i > Len(args) \/ st.err # "none" THEN st
    ELSE
      LET name == ps[i].name
          value == args[i]
          ann == ps[i].ann
          kws == ArgKeywords(ann)
          entry(res, nm) == [name |-> name, value |-> value, ann |-> ann,
                             kws |-> kws, res |-> res, stored |-> nm, before |-> st.kw]
      IN IF check_type_fails(value, ann)
         THEN [st EXCEPT !.err = "ArgumentTypeError",
                         !.trace = Append(@, entry("ArgumentTypeError", ""))]
         ELSE LET cc == check_consistency(st.kw, kws)
              IN IF cc.err
                 THEN [st EXCEPT !.err = "AnnotationError",
                                 !.trace = Append(@, entry("AnnotationError", ""))]
                 ELSE LET r == add_argument_install(cls, st.t, st.attrs, name, value, kws)
                      IN process(cls, ps, args, i + 1,
                                 [st EXCEPT !.t = r.t, !.attrs = r.attrs, !.kw = cc.kw,
                                            !.trace = Append(@, entry("ok", r.stored))])

(***************************************************************************)
(* init(constructor).__init                                                *)
(***************************************************************************)
\* A declared constructor parameter (after self): name, annotation, default
\* (spec.defaults) and the values callers pass for it in this model.
Param(name, ann, hasDef, def, cands) ==
    [name |-> name, ann |-> ann, hasDef |-> hasDef, def |-> def, cands |-> cands]

\* spec.defaults: the defaults of the trailing parameters, in order
Defaults(ps) ==
    LET d == Cardinality({i \in 1..Len(ps) : ps[i].hasDef})
    IN [j \in 1..d |-> ps[Len(ps) - d + j].def]

EmptyAttrs == [x \in {} |-> VNone]

\* __init ignoring the toggle
InitSkips_never(en) == FALSE

\* `if _enabled:` of __init: the pipeline is skipped when the toggle is off
InitSkips(en) == ~en

\* Python binds constructor(obj, *pos, **kw) to the signature (self, ps...) without TypeError
SigValid(ps, pos, kw) ==
    LET n == Len(ps)
        p == Len(pos)
    IN /\ p <= n
       /\ \A i \in (p + 1)..n : ps[i].name \in DOMAIN kw \/ ps[i].hasDef
       /\ \A nm \in DOMAIN kw : \E i \in (p + 1)..n : ps[i].name = nm

\* init.__init(obj, *pos, **kw) on class cls with parameters ps and type state t.
\* [outcome, t |-> type state after, attrs |-> attributes of the instance, trace]
DoInit(cls, ps, t, en, pos, kw) ==
    IF InitSkips(en)
    \* constructor(*args, **kwargs) only
    THEN [outcome |-> IF SigValid(ps, pos, kw) THEN "ok" ELSE "TypeError",
          t |-> t, attrs |-> EmptyAttrs, trace |-> <<>>]
    ELSE
      LET n == Len(ps)
          p == Len(pos)
          defs == Defaults(ps)
          d == Len(defs)
      IN IF p < n /\ d = 0
         \* spec.defaults is None: None[...] raises TypeError
         THEN [outcome |-> "TypeError", t |-> t, attrs |-> EmptyAttrs, trace |-> <<>>]
         ELSE
           LET k == n - p
               \* arguments += spec.defaults[len(arguments) - len(spec.args):]
               args == IF p < n THEN pos \o SubSeq(defs, d - Min2(k, d) + 1, d) ELSE pos
               zipped == SubSeq(args, 1, Min2(n, Len(args)))
               st == process(cls, ps, zipped, 1,
                             [err |-> "none", t |-> t, attrs |-> EmptyAttrs,
                              kw |-> {}, trace |-> <<>>])
           IN IF st.err = "none"
              \* obj.finalize(), then constructor(*args, **kwargs) with body `pass`,
              \* which raises TypeError when the call does not fit its signature
              THEN [outcome |-> IF SigValid(ps, pos, kw) THEN "ok" ELSE "TypeError",
                    t |-> finalize(st.t), attrs |-> st.attrs, trace |-> st.trace]
              ELSE [outcome |-> st.err, t |-> st.t, attrs |-> st.attrs,
                    trace |-> st.trace]

\* The value the caller supplies for parameter i (positional, keyword, or default)
Supplied(ps, pos, kw) ==
    [i \in 1..Len(ps) |->
        IF i <= Len(pos) THEN pos[i]
        ELSE IF ps[i].name \in DOMAIN kw THEN kw[ps[i].name] ELSE ps[i].def]

\* Signature-valid calls: p positional arguments, keyword arguments for the
\* parameters in K, defaults for the remaining ones.
Forms(ps) ==
    LET n == Len(ps)
    IN UNION { UNION { { [pos |-> pv, kw |-> kv] :
                   pv \in {f \in [1..p -> UNION {ps[i].cands : i \in 1..n}] :
                              \A i \in 1..p : f[i] \in ps[i].cands},
                   kv \in {g \in [{ps[i].name : i \in K} -> UNION {ps[i].cands : i \in 1..n}] :
                              \A i \in K : g[ps[i].name] \in ps[i].cands} } :
                 K \in {K2 \in SUBSET ((p + 1)..n) :
                          \A i \in ((p + 1)..n) \ K2 : ps[i].hasDef} } :
               p \in 0..n }

\* Calls that do not fit the signature: no arguments, and one positional argument too many
BadForms(ps) ==
    {[pos |-> <<>>, kw |-> EmptyAttrs],
     [pos |-> [i \in 1..(Len(ps) + 1) |->
                 IF i <= Len(ps) THEN CHOOSE v \in ps[i].cands : TRUE ELSE VInt0],
      kw |-> EmptyAttrs]}

CallForms(ps) == Forms(ps) \cup BadForms(ps)

(***************************************************************************)
(* strict(func).checker                                                    *)
(***************************************************************************)
\* A parameter of a wrapped function: name, whether spec.annotations has it, annotation
FParam(name, hasAnn, ann, cands) ==
    [name |-> name, hasAnn |-> hasAnn, ann |-> ann, cands |-> cands]

\* checker(*args) for a function with parameters ps, return annotation ret (if
\* hasRet) whose body returns result. Outcome of the call.
DoStrict(ps, hasRet, ret, en, args, result) ==
    IF ~en THEN (IF Len(args) = Len(ps) THEN "ok" ELSE "TypeError")
    ELSE
      LET checkArgs == Len(args) > 0 /\ ~(Len(ps) = 1 /\ ps[1].name = "self")
      IN IF checkArgs /\ Len(ps) = 0
         THEN "IndexError"          \* spec.args[0] on an empty list
         ELSE
           LET i0 == IF checkArgs /\ ps[1].name = "self" THEN 2 ELSE 1
               argErr == checkArgs /\
                         \E j \in i0..Min2(Len(ps), Len(args)) :
                             ps[j].hasAnn /\ ~_type_ok(args[j], ps[j].ann)
           IN IF argErr THEN "ArgumentTypeError"
              \* func(*args) raises TypeError when the arity does not match
              ELSE IF Len(args) # Len(ps) THEN "TypeError"
              ELSE IF hasRet /\ ~_type_ok(result, ret) THEN "ReturnTypeError"
              ELSE "ok"

(***************************************************************************)
(* The program using the library: @init-decorated classes and              *)
(* @strict-wrapped functions.                                              *)
(***************************************************************************)
ClassDecls ==
    ("A" :> <<Param("cnt", <<TypeElem("int"), StrElem("boolean private", {"boolean", "private"})>>, FALSE, VNone, {VInt0}),
              Param("lbl", <<StrElem("string", {"string"})>>, FALSE, VNone, {VStr}),
              Param("n", <<TypeElem("int")>>, TRUE, VInt0, {VInt0, VStr})>>)
 @@ ("C" :> <<Param("items", <<TypeElem("list"), StrElem("container", {"container"})>>, FALSE, VNone, {VList}),
              Param("x", <<TypeElem("int"), StrElem("nonable compare", {"nonable", "compare"})>>, TRUE, VNone, {VNone, VInt0})>>)
 @@ ("B" :> <<Param("a", <<StrElem("boolean", {"boolean"})>>, FALSE, VNone, {VInt0}),
              Param("b", <<StrElem("boolean", {"boolean"})>>, FALSE, VNone, {VInt0})>>)
 @@ ("E" :> <<Param("a", <<TypeElem("int"), StrElem("number", {"number"})>>, FALSE, VNone, {VBool, VStr}),
              Param("b", <<TypeElem("list")>>, FALSE, VNone, {VMyList, VNone}),
              Param("c", <<TypeElem("Sequence")>>, TRUE, VStr, {VList, VInt0})>>)

Funcs ==
    ("f" :> [ps |-> <<FParam("n", TRUE, <<TypeElem("int")>>, {VInt0, VBool, VStr})>>,
             hasRet |-> TRUE, ret |-> <<TypeElem("str")>>, results |-> {VStr, VInt0}])
 @@ ("g" :> [ps |-> <<FParam("self", FALSE, <<>>, {VInt0}),
                      FParam("x", TRUE, <<StrElem("any value", {"any", "value"})>>, {VInt0})>>,
             hasRet |-> FALSE, ret |-> <<>>, results |-> {VNone}])
 @@ ("h" :> [ps |-> <<FParam("x", TRUE, <<TypeElem("int"), StrElem("nonable private", {"nonable", "private"})>>,
                             {VNone, VStr})>>,
             hasRet |-> TRUE, ret |-> <<TypeElem("str"), StrElem("nonable", {"nonable"})>>,
             results |-> {VNone, VStr}])
 @@ ("q" :> [ps |-> <<FParam("x", TRUE, <<TypeElem("Sequence")>>, {VStr, VInt0})>>,
             hasRet |-> TRUE, ret |-> <<TypeElem("object")>>, results |-> {VNone}])
 @@ ("m" :> [ps |-> <<FParam("self", FALSE, <<>>, {VInt0})>>,
             hasRet |-> TRUE, ret |-> <<TypeElem("int")>>, results |-> {VBool, VStr}])

ArgTuples(ps) ==
    {f \in [1..Len(ps) -> UNION {ps[i].cands : i \in 1..Len(ps)}] :
        \A i \in 1..Len(ps) : f[i] \in ps[i].cands}

\* also calls with no argument and with one argument too many
StrictArgs(ps) == ArgTuples(ps) \cup {<<>>, Append(CHOOSE a \in ArgTuples(ps) : TRUE, VInt0)}

(***************************************************************************)
(* Capability methods called on instances                                  *)
(***************************************************************************)
Truthy(v) == IF v.t \in {"int", "bool"} THEN v.v[1] # 0
             ELSE IF v.t = "NoneType" THEN FALSE
             ELSE Len(v.v) > 0

NoOp == [op |-> "none", inst |-> 0, err |-> "none", num |-> 0, bool |-> FALSE, seq |-> <<>>]

\* bool(instance): _bool if installed, else object's default truth (True)
_bool(inst, t) ==
    IF "__bool__" \notin t.methods
    THEN [NoOp EXCEPT !.op = "bool", !.bool = TRUE]
    ELSE IF t.varbool \notin DOMAIN inst.attrs
         THEN [NoOp EXCEPT !.op = "bool", !.err = "AttributeError"]
         ELSE [NoOp EXCEPT !.op = "bool", !.bool = Truthy(inst.attrs[t.varbool])]

Dunder == ("len" :> "__len__") @@ ("contains" :> "__contains__") @@
          ("getitem" :> "__getitem__") @@ ("setitem" :> "__setitem__") @@
          ("delitem" :> "__delitem__") @@ ("iter" :> "__iter__") @@
          ("reversed" :> "__reversed__")

Reverse(sq) == [i \in 1..Len(sq) |-> sq[Len(sq) - i + 1]]

\* len(x), 2 in x, x[0], x[0] = 9, del x[0], list(iter(x)), list(reversed(x)):
\* _len/_contains/_getitem/_setitem/_delitem/_iter/_reversed on the backing field.
\* [r |-> lastOp record, attrs |-> the instance's attributes after]
container_op(inst, t, op) ==
    LET base == [NoOp EXCEPT !.op = op]
    IN IF Dunder[op] \notin t.methods
       THEN [r |-> [base EXCEPT !.err = "TypeError"], attrs |-> inst.attrs]
       ELSE IF t.varitems \notin DOMAIN inst.attrs
       THEN [r |-> [base EXCEPT !.err = "AttributeError"], attrs |-> inst.attrs]
       ELSE
         LET b == inst.attrs[t.varitems]
         IN IF "list" \in Mro(b.t)
            THEN IF op \in {"getitem", "setitem", "delitem"} /\ Len(b.v) = 0
                 THEN [r |-> [base EXCEPT !.err = "IndexError"], attrs |-> inst.attrs]
                 ELSE CASE op = "len"      -> [r |-> [base EXCEPT !.num = Len(b.v)], attrs |-> inst.attrs]
                        [] op = "contains" -> [r |-> [base EXCEPT !.bool = \E i \in 1..Len(b.v) : b.v[i] = 2],
                                               attrs |-> inst.attrs]
                        [] op = "getitem"  -> [r |-> [base EXCEPT !.num = b.v[1]], attrs |-> inst.attrs]
                        [] op = "setitem"  -> [r |-> base,
                                               attrs |-> [inst.attrs EXCEPT ![t.varitems] =
                                                             Val(b.t, [b.v EXCEPT ![1] = 9])]]
                        [] op = "delitem"  -> [r |-> base,
                                               attrs |-> [inst.attrs EXCEPT ![t.varitems] =
                                                             Val(b.t, Tail(b.v))]]
                        [] op = "iter"     -> [r |-> [base EXCEPT !.seq = b.v], attrs |-> inst.attrs]
                        [] op = "reversed" -> [r |-> [base EXCEPT !.seq = Reverse(b.v)], attrs |-> inst.attrs]
            \* a str backing value (payload: its character codes): immutable, and
            \* `2 in s` needs a str left operand
            ELSE IF "str" \in Mro(b.t)
            THEN CASE op \in {"contains", "setitem", "delitem"} ->
                          [r |-> [base EXCEPT !.err = "TypeError"], attrs |-> inst.attrs]
                   [] op = "getitem" /\ Len(b.v) = 0 ->
                          [r |-> [base EXCEPT !.err = "IndexError"], attrs |-> inst.attrs]
                   [] op = "getitem"  -> [r |-> [base EXCEPT !.num = b.v[1]], attrs |-> inst.attrs]
                   [] op = "len"      -> [r |-> [base EXCEPT !.num = Len(b.v)], attrs |-> inst.attrs]
                   [] op = "iter"     -> [r |-> [base EXCEPT !.seq = b.v], attrs |-> inst.attrs]
                   [] op = "reversed" -> [r |-> [base EXCEPT !.seq = Reverse(b.v)], attrs |-> inst.attrs]
            \* int / None backing values support none of these operations
            ELSE [r |-> [base EXCEPT !.err = "TypeError"], attrs |-> inst.attrs]

(***************************************************************************)
(* The state machine                                                       *)
(***************************************************************************)
NoCall == [kind |-> "none", name |-> "", en |-> FALSE, pos |-> <<>>, kw |-> EmptyAttrs,
           valid |-> TRUE,
           supplied |-> <<>>, result |-> VNone, outcome |-> "none",
           attrs |-> EmptyAttrs, trace |-> <<>>, before |-> FreshType]

Init ==
    /\ enabled = TRUE
    /\ decl = ClassDecls
    /\ ts = [c \in DOMAIN ClassDecls |-> FreshType]
    /\ instances = <<>>
    /\ lastCall = NoCall
    /\ lastOp = NoOp
    /\ calls = 0

\* enable()
enable == enabled' = TRUE /\ UNCHANGED <<decl, ts, instances, lastCall, lastOp, calls>>

\* disable()
disable == enabled' = FALSE /\ UNCHANGED <<decl, ts, instances, lastCall, lastOp, calls>>

\* Calling an @init-decorated constructor c with the call form: C(*form.pos, **form.kw)
ConstructCall(c, form) ==
    LET r == DoInit(c, decl[c], ts[c], enabled, form.pos, form.kw)
    IN /\ ts' = [ts EXCEPT ![c] = r.t]
       /\ instances' = IF r.outcome = "ok"
                       THEN Append(instances, [cls |-> c, attrs |-> r.attrs, validated |-> enabled])
                       ELSE instances
       /\ lastCall' = [kind |-> "init", name |-> c, en |-> enabled, pos |-> form.pos,
                       kw |-> form.kw, valid |-> SigValid(decl[c], form.pos, form.kw),
                       supplied |-> Supplied(decl[c], form.pos, form.kw),
                       result |-> VNone, outcome |-> r.outcome, attrs |-> r.attrs,
                       trace |-> r.trace, before |-> ts[c]]
       /\ calls' = calls + 1
       /\ UNCHANGED <<enabled, decl, lastOp>>

\* Any call of a constructor, including calls that do not fit its signature
Construct ==
    /\ calls < MaxCalls
    /\ \E c \in DOMAIN decl : \E form \in CallForms(decl[c]) : ConstructCall(c, form)

\* A signature-valid call of a constructor
ConstructValid ==
    /\ calls < MaxCalls
    /\ \E c \in DOMAIN decl : \E form \in Forms(decl[c]) : ConstructCall(c, form)

\* Calling a @strict-wrapped function with positional arguments
CallStrict ==
    /\ calls < MaxCalls
    /\ \E fn \in DOMAIN Funcs :
         \E args \in StrictArgs(Funcs[fn].ps), res \in Funcs[fn].results :
           lastCall' = [kind |-> "strict", name |-> fn, en |-> enabled, pos |-> args,
                        kw |-> EmptyAttrs, valid |-> Len(args) = Len(Funcs[fn].ps), supplied |-> <<>>, result |-> res,
                        outcome |-> DoStrict(Funcs[fn].ps, Funcs[fn].hasRet, Funcs[fn].ret,
                                             enabled, args, res),
                        attrs |-> EmptyAttrs, trace |-> <<>>, before |-> FreshType]
    /\ calls' = calls + 1
    /\ UNCHANGED <<enabled, decl, ts, instances, lastOp>>

\* bool(instance)
BoolConvert ==
    /\ \E i \in 1..Len(instances) :
         lastOp' = [_bool(instances[i], ts[instances[i].cls]) EXCEPT !.inst = i]
    /\ UNCHANGED <<enabled, decl, ts, instances, lastCall, calls>>

\* container protocol on an instance
ContainerOp ==
    /\ \E i \in 1..Len(instances), op \in DOMAIN Dunder :
         LET r == container_op(instances[i], ts[instances[i].cls], op)
         IN /\ lastOp' = [r.r EXCEPT !.inst = i]
            /\ instances' = [instances EXCEPT ![i].attrs = r.attrs]
    /\ UNCHANGED <<enabled, decl, ts, lastCall, calls>>

Next == enable \/ disable \/ Construct \/ CallStrict

Spec == Init /\ [][Next]_vars

\* The same program, also using the capabilities installed on its instances
NextCaps == Next \/ BoolConvert \/ ContainerOp

SpecCaps == Init /\ [][NextCaps]_vars

(***************************************************************************)
(* A class D with two fields whose keyword strings range over every subset *)
(* of Object.all_keywords, constructed by the program.                     *)
(***************************************************************************)
DFields == <<"a", "b">>

\* The annotation string declaring the keywords S, in the order of Object.all_keywords
KwOrder == <<"nonable", "local", "private", "boolean", "number", "string", "container", "compare">>
RECURSIVE KwJoin(_, _)
KwJoin(S, i) ==
    IF i > Len(KwOrder) THEN ""
    ELSE IF KwOrder[i] \in S
         THEN LET rest == KwJoin(S, i + 1)
              IN IF rest = "" THEN KwOrder[i] ELSE KwOrder[i] \o " " \o rest
         ELSE KwJoin(S, i + 1)
KwString(S) == KwJoin(S, 1)

InitTraits ==
    /\ enabled = TRUE
    /\ \E kwa \in SUBSET all_keywords, kwb \in SUBSET all_keywords :
         decl = ("D" :> <<Param(DFields[1], <<StrElem(KwString(kwa), kwa)>>, FALSE, VNone, {VInt0}),
                          Param(DFields[2], <<StrElem(KwString(kwb), kwb)>>, FALSE, VNone, {VInt0})>>)
    /\ ts = ("D" :> FreshType)
    /\ instances = <<>>
    /\ lastCall = NoCall
    /\ lastOp = NoOp
    /\ calls = 0

NextTraits == ConstructValid

SpecTraits == InitTraits /\ [][NextTraits]_vars

(***************************************************************************)
(* Claims                                                                  *)
(***************************************************************************)
DrasticErrors == {"ArgumentTypeError", "ReturnTypeError", "AnnotationError"}

\* C1: a call made while the toggle is off raises none of ArgumentTypeError,
\* ReturnTypeError, AnnotationError; a constructor call made while it is on has
\* the outcome the same call has in a fresh process (earlier calls, made with
\* the toggle off or on, do not change how it is validated).
C1_Toggle ==
    /\ (lastCall.kind # "none" /\ ~lastCall.en) => lastCall.outcome \notin DrasticErrors
    /\ (lastCall.kind = "init" /\ lastCall.en) =>
         lastCall.outcome = DoInit(lastCall.name, decl[lastCall.name], FreshType, TRUE,
                                   lastCall.pos, lastCall.kw).outcome

\* Witness: a conflicting constructor (two 'boolean' fields) called with the toggle off
C1_Witness ==
    lastCall.kind = "init" /\ ~lastCall.en /\ lastCall.name = "B"

\* C2: with the toggle off, a (signature-valid) call of an @init constructor
\* still assigns every declared parameter on the instance with the value passed.
C2_DisabledAssigns ==
    (lastCall.kind = "init" /\ ~lastCall.en /\ lastCall.valid) =>
        \A i \in 1..Len(decl[lastCall.name]) :
            /\ decl[lastCall.name][i].name \in DOMAIN lastCall.attrs
            /\ lastCall.attrs[decl[lastCall.name][i].name] = lastCall.supplied[i]

LocalIncompatibleTraits == {"private", "boolean", "number", "string", "container", "compare"}
UniqueTraits == {"boolean", "number", "container", "compare"}

\* C3: (toggle on) a field that passed its type check raises AnnotationError
\* exactly when its traits contain 'local' together with one of
\* private/boolean/number/string/container/compare, or an earlier field of the
\* same construction declared one of its unique traits (boolean, number,
\* container, compare); no other trait combination raises.
C3_TraitConsistency ==
    lastCall.kind = "init" =>
        \A k \in 1..Len(lastCall.trace) :
            LET e == lastCall.trace[k]
                earlier == UNION {lastCall.trace[j].kws : j \in 1..(k - 1)}
            IN e.res # "ArgumentTypeError" =>
                 ((e.res = "AnnotationError") <=>
                     \/ ("local" \in e.kws /\ e.kws \cap LocalIncompatibleTraits # {})
                     \/ (e.kws \cap UniqueTraits \cap earlier # {}))

\* Witness: the second of two fields declaring the same unique trait is rejected
\* after the first was accepted
C3_Witness ==
    /\ lastCall.kind = "init"
    /\ Len(lastCall.trace) = 2
    /\ lastCall.trace[1].res = "ok"
    /\ lastCall.trace[2].res = "AnnotationError"
    /\ "local" \notin lastCall.trace[2].kws

\* C4: once a construction of a type has completed, a further construction of
\* it never raises AnnotationError and leaves its installed capabilities and
\* backing-field names unchanged.
C4_Idempotent ==
    [][ \A c \in DOMAIN decl :
          (ts[c].initialized /\ calls' = calls + 1 /\ lastCall'.kind = "init"
                             /\ lastCall'.name = c)
          => (lastCall'.outcome # "AnnotationError" /\ ts'[c] = ts[c]) ]_vars

\* Witness: a successful construction of an already initialized type
C4_Witness ==
    lastCall.kind = "init" /\ lastCall.en /\ lastCall.before.initialized
    /\ lastCall.outcome = "ok"

\* The direct base class of each class of the program's values
DirectBase(t) ==
    CASE t = "bool" -> "int"
      [] t = "MyList" -> "list"
      [] t \in {"int", "str", "list", "NoneType"} -> "object"
      [] t = "object" -> ""

\* The classes registered with an abstract base class: Sequence.register(str),
\* MutableSequence.register(list), numbers.Integral.register(int)
Registered(t) ==
    CASE t = "str" -> {"Sequence"}
      [] t = "list" -> {"MutableSequence"}
      [] t = "int" -> {"Integral"}
      [] t \in {"bool", "MyList", "NoneType", "object"} -> {}

\* The bases of the abstract base classes
AbcBases(a) ==
    CASE a = "MutableSequence" -> {"Sequence"}
      [] a = "Sequence" -> {"Reversible", "Collection"}
      [] a = "Reversible" -> {"Iterable"}
      [] a = "Collection" -> {"Sized", "Iterable", "Container"}
      [] a = "Integral" -> {"Rational"}
      [] a = "Rational" -> {"Real"}
      [] a = "Real" -> {"Complex"}
      [] a = "Complex" -> {"Number"}
      [] a \in {"Sized", "Iterable", "Container", "Number"} -> {}

RECURSIVE AbcAncestors(_)
AbcAncestors(a) == {a} \cup UNION {AbcAncestors(b) : b \in AbcBases(a)}

\* Classes whose instances are hashable (Hashable.__subclasshook__): list sets
\* __hash__ = None, and MyList inherits it
Unhashable == {"list", "MyList"}

\* An instance of class t is an instance of T: T is on t's chain of direct bases,
\* an ancestor of an abstract base class one of them is registered with, or
\* Hashable for a hashable class
RECURSIVE DerivesFrom(_, _)
DerivesFrom(t, T) ==
    \/ t = T
    \/ \E r \in Registered(t) : T \in AbcAncestors(r)
    \/ (T = "Hashable" /\ t \notin Unhashable)
    \/ (DirectBase(t) # "" /\ DerivesFrom(DirectBase(t), T))

\* C5: a field descriptor raises ArgumentTypeError exactly when its annotation
\* lists a concrete type, the value is none of them, and it is not None under
\* 'nonable'; the fields processed before the failing one stay assigned.
C5_Descriptor ==
    lastCall.kind = "init" =>
        \A k \in 1..Len(lastCall.trace) :
            LET e == lastCall.trace[k]
                types == ArgTypes(e.ann)
            IN /\ (e.res = "ArgumentTypeError") <=>
                    (types # {} /\ ~(\E T \in types : DerivesFrom(e.value.t, T))
                     /\ ~(e.value.t = "NoneType" /\ "nonable" \in e.kws))
               /\ e.res = "ok" =>
                    (e.stored \in DOMAIN lastCall.attrs /\ lastCall.attrs[e.stored] = e.value)

\* Witness: a construction failing on a later field after an earlier field, whose
\* value is an instance of a subclass (bool) of its declared type (int), was assigned
C5_Witness ==
    /\ lastCall.kind = "init"
    /\ lastCall.outcome = "ArgumentTypeError"
    /\ Len(lastCall.trace) > 1
    /\ lastCall.trace[1].res = "ok"
    /\ lastCall.trace[1].value.t = "bool"
    /\ DOMAIN lastCall.attrs # {}

\* The acceptance rule of 4.2, with 'nonable' taken from any keyword string
RuleFails(v, ann) ==
    LET types == ArgTypes(ann)
        toks == UNION {ann[j].toks : j \in {i \in 1..Len(ann) : ann[i].k = "str"}}
    IN types # {} /\ ~(\E T \in types : DerivesFrom(v.t, T)) /\ ~(v.t = "NoneType" /\ "nonable" \in toks)

\* C6: (toggle on) @strict raises ArgumentTypeError exactly when an annotated
\* positional argument (index 0 skipped for 'self') fails the rule of 4.2, else
\* ReturnTypeError exactly when the result fails its return annotation, else
\* returns the result (for calls with the function's arity).
C6_Strict ==
    (lastCall.kind = "strict" /\ lastCall.en /\ lastCall.valid) =>
        LET F == Funcs[lastCall.name]
            ps == F.ps
            args == lastCall.pos
            i0 == IF ps[1].name = "self" THEN 2 ELSE 1
            argFails == \E j \in i0..Min2(Len(ps), Len(args)) :
                            ps[j].hasAnn /\ RuleFails(args[j], ps[j].ann)
        IN lastCall.outcome =
             IF argFails THEN "ArgumentTypeError"
             ELSE IF F.hasRet /\ RuleFails(lastCall.result, F.ret) THEN "ReturnTypeError"
             ELSE "ok"

\* C7: on an instance whose type has a 'container' field backed by a list,
\* len(instance) equals the length of the backing list.
C7_ContainerLen ==
    (lastOp.op = "len" /\ lastOp.inst \in 1..Len(instances)
     /\ ts[instances[lastOp.inst].cls].varitems \in DOMAIN instances[lastOp.inst].attrs) =>
        LET inst == instances[lastOp.inst]
        IN lastOp.err = "none" /\ lastOp.num = Len(inst.attrs[ts[inst.cls].varitems].v)

\* C8: the string_fields list (_varstr) of an initialized type holds each
\* 'string' field once, without duplicates.
C8_NoDuplicateStringFields ==
    \A c \in DOMAIN decl :
        ts[c].initialized =>
            \A i, j \in 1..Len(ts[c].varstr) : i # j => ts[c].varstr[i] # ts[c].varstr[j]

\* C9: every instance constructed with the toggle on stores each 'private'
\* field under '_<TypeName>__<field>'.
C9_PrivateNames ==
    \A i \in 1..Len(instances) :
        instances[i].validated =>
            \A k \in 1..Len(decl[instances[i].cls]) :
                "private" \in ArgKeywords(decl[instances[i].cls][k].ann) =>
                    set_private(instances[i].cls, decl[instances[i].cls][k].name)
                        \in DOMAIN instances[i].attrs

\* C10: (toggle on) every signature-valid call of an @init constructor validates
\* and assigns each parameter with the value the caller supplied, and never
\* fails with an error outside validation.
C10_Supplied ==
    (lastCall.kind = "init" /\ lastCall.en /\ lastCall.valid) =>
        /\ lastCall.outcome # "TypeError"
        /\ \A k \in 1..Len(lastCall.trace) : lastCall.trace[k].value = lastCall.supplied[k]
        /\ lastCall.outcome = "ok" => Len(lastCall.trace) = Len(decl[lastCall.name])

====
